---- MODULE Spec2Model ----
(***************************************************************************)
(* A model of matchzoo/generators/list_generator.py: ListGenerator, which  *)
(* groups the rows of a relation table by id_left at construction and, on  *)
(* every batch request, assembles the features, ids and labels of one      *)
(* group.                                                                  *)
(*                                                                         *)
(* A DataFrame is a record [index, data]: index is the sequence of row     *)
(* labels and data maps every column name to the sequence of its cells.    *)
(* Python positions are 0-based, TLA+ sequences 1-based: position p of a   *)
(* frame is element p + 1 of its sequences.                                *)
(***************************************************************************)
EXTENDS Naturals, Sequences, FiniteSets

\* ------------------------------------------------------------- bounds
\* Rows of the relation table.
MaxRows == 3
\* Selectors the harness hands over in one index_array.
MaxBatch == 2
\* Batch requests served by one generator.
MaxServed == 2

\* The ids a relation row may reference, and the rows of a feature table.
LeftIds == {0, 1}
RightIds == {0, 1}
TableLens == {0, 1, 2}

Stages == {"train", "evaluate", "predict"}

VARIABLES
    inputs,        \* the DataPack handed to the constructor, as it then was
    stage,         \* self.stage
    pc,            \* "new" before __init__, "serving" after
    _left,         \* self._left
    _right,        \* self._right
    _relation,     \* self._relation
    _id_lists,     \* self._id_lists
    num_instances, \* what __init__ hands to the harness
    served,        \* batch requests served so far
    result         \* how the last batch request ended

vars == <<inputs, stage, pc, _left, _right, _relation, _id_lists,
          num_instances, served, result>>

\* --------------------------------------------------------- DataFrames
\* tasks.Ranking().output_dtype: the labels of the class example come back
\* as floats.
output_dtype == "float64"

\* The relation table of the class example: pd.DataFrame(rows, columns=...)
\* gives the default index 0..n-1.  The labels are integers, and opaque to
\* the generator until the cast: each row carries its own, as in the
\* example.
RelationFrame(ids_left, ids_right) ==
    [index |-> [p \in 1..Len(ids_left) |-> p - 1],
     data  |-> [id_left  |-> ids_left,
                id_right |-> ids_right,
                label    |-> [p \in 1..Len(ids_left) |->
                                 [dtype |-> "int64", val |-> p - 1]]]]

\* A feature table keyed by id (set_index), with one text column.  The text
\* of a row is opaque to the generator: each row carries its own.
LeftFrame(keys) ==
    [index |-> keys,
     data  |-> [text_left |-> [j \in 1..Len(keys) |-> 100 + j]]]

RightFrame(keys) ==
    [index |-> keys,
     data  |-> [text_right |-> [j \in 1..Len(keys) |-> 200 + j]]]

\* df.columns
Columns(df) == DOMAIN df.data

\* len(df)
NRows(df) == Len(df.index)

SeqsUpTo(S, lens) == UNION {[1..n -> S] : n \in lens}

\* ------------------------------------------------- transform_relation
\* The keys of relations.groupby('id_left').
GroupKeys(relations) ==
    {relations.data.id_left[p] : p \in 1..NRows(relations)}

Min(S) == CHOOSE x \in S : \A y \in S : x <= y

\* groupby sorts the group keys (sort=True is the default of groupby).
RECURSIVE SortedKeys(_)
SortedKeys(S) ==
    IF S = {} THEN <<>>
    ELSE <<Min(S)>> \o SortedKeys(S \ {Min(S)})

\* The places (1-based) at which the sequence cells holds key, ascending.
PlacesOfKey(cells, key) ==
    SelectSeq([p \in 1..Len(cells) |-> p], LAMBDA p : cells[p] = key)

\* A variant of GroupIndex: the rows numbered inside their group.
GroupIndex_within(relations, key) ==
    LET rows == PlacesOfKey(relations.data.id_left, key)
    IN  [i \in 1..Len(rows) |-> i - 1]

\* group.index.tolist() of the group of key: the index labels of its rows,
\* in the order of the rows in the table.
GroupIndex(relations, key) ==
    LET rows == PlacesOfKey(relations.data.id_left, key)
    IN  [i \in 1..Len(rows) |-> relations.index[rows[i]]]

\* The distinct id_left of the first n rows, in the order in which a scan
\* from the top first meets them.
RECURSIVE FirstSeen(_, _)
FirstSeen(relations, n) ==
    IF n = 0 THEN <<>>
    ELSE LET before == FirstSeen(relations, n - 1)
             key == relations.data.id_left[n]
         IN  IF \E j \in 1..Len(before) : before[j] = key
             THEN before
             ELSE Append(before, key)

\* A variant of GroupOrder: the groups in first-seen order (sort=False).
GroupOrder_unsorted(relations) == FirstSeen(relations, NRows(relations))

\* The order in which groupby yields the groups.
GroupOrder(relations) == SortedKeys(GroupKeys(relations))

\* A variant of transform_relation: one group per run of consecutive rows
\* with the same id_left.
transform_relation_runs(relations) ==
    LET ids == relations.data.id_left
        starts == SelectSeq([p \in 1..Len(ids) |-> p],
                            LAMBDA p : p = 1 \/ ids[p] # ids[p - 1])
        stop(j) == IF j = Len(starts) THEN NRows(relations)
                   ELSE starts[j + 1] - 1
    IN  [j \in 1..Len(starts) |->
            [i \in 1..(stop(j) - starts[j] + 1) |->
                relations.index[starts[j] + i - 1]]]

transform_relation(relations) ==
    LET keys == GroupOrder(relations)
    IN  [j \in 1..Len(keys) |-> GroupIndex(relations, keys[j])]

\* ------------------------------------------------------------- state
Init ==
    /\ \E ids_left \in SeqsUpTo(LeftIds, 0..MaxRows) :
       \E ids_right \in [1..Len(ids_left) -> RightIds] :
       \E lkeys \in SeqsUpTo(LeftIds, TableLens) :
       \E rkeys \in SeqsUpTo(RightIds, TableLens) :
           inputs = [relation |-> RelationFrame(ids_left, ids_right),
                     left     |-> LeftFrame(lkeys),
                     right    |-> RightFrame(rkeys)]
    /\ stage \in Stages
    /\ pc = "new"
    /\ _left = inputs.left
    /\ _right = inputs.right
    /\ _relation = inputs.relation
    /\ _id_lists = <<>>
    /\ num_instances = 0
    /\ served = 0
    /\ result = [outcome |-> "none"]

\* ListGenerator.__init__
__init__ ==
    /\ pc = "new"
    /\ _left' = inputs.left
    /\ _right' = inputs.right
    /\ _relation' = inputs.relation
    /\ _id_lists' = transform_relation(inputs.relation)
    /\ num_instances' = Len(transform_relation(inputs.relation))
    /\ pc' = "serving"
    /\ UNCHANGED <<inputs, stage, served, result>>

\* ------------------------------------------------------ batch request
\* The columns of the relation table, in order: iloc addresses them by
\* number (0: id_left, 1: id_right, 2: label).
RelationColumns == <<"id_left", "id_right", "label">>

\* A variant of iloc: the whole column, whatever the positions.
iloc_all_rows(df, positions, c) ==
    [index  |-> df.index,
     values |-> df.data[RelationColumns[c + 1]]]

\* df.iloc[positions, c]: the Series of column number c at the given
\* 0-based row positions, in their order.
iloc(df, positions, c) ==
    [index  |-> [i \in 1..Len(positions) |-> df.index[positions[i] + 1]],
     values |-> [i \in 1..Len(positions) |->
                    df.data[RelationColumns[c + 1]][positions[i] + 1]]]

\* A variant of astype: a cast that also rescales the value.
astype_rescaled(cell, dtype) == [dtype |-> dtype, val |-> cell.val * 2]

\* series.astype(dtype) of one cell of the label column.
astype(cell, dtype) == [dtype |-> dtype, val |-> cell.val]

\* self._relation['label'] = self._relation['label'].astype(dtype)
CastLabels(df, dtype) ==
    [df EXCEPT !.data.label = [p \in DOMAIN @ |-> astype(@[p], dtype)]]

\* Variants of WithLabels: 'evaluate' left out, and every stage let in.
WithLabels_train_only(stg) == stg = "train"

WithLabels_any_stage(stg) == stg \in {"train", "evaluate", "predict"}

\* self.stage in ['train', 'evaluate']
WithLabels(stg) == stg \in {"train", "evaluate"}

\* The rows of a feature table whose index label is key.
Matches(df, key) == PlacesOfKey(df.index, key)

\* A variant of KeyError: raised only when none of the keys is a label (the
\* others are reindexed).
KeyError_none_found(df, keys) ==
    /\ keys # <<>>
    /\ \A i \in 1..Len(keys) : Matches(df, keys[i]) = <<>>

\* df.loc[keys, column] raises KeyError when a key is no label of the index.
KeyError(df, keys) == \E i \in 1..Len(keys) : Matches(df, keys[i]) = <<>>

\* A variant of loc: every key looked up once, however often it is asked.
RECURSIVE loc_once(_, _, _)
loc_once(df, keys, column) ==
    IF keys = <<>> THEN <<>>
    ELSE LET m == Matches(df, Head(keys))
             rest == SelectSeq(Tail(keys), LAMBDA k : k # Head(keys))
         IN  [i \in 1..Len(m) |-> df.data[column][m[i]]]
                 \o loc_once(df, rest, column)

\* df.loc[keys, column].tolist(): for every key in turn, the cells of the
\* rows labelled with it.
RECURSIVE loc(_, _, _)
loc(df, keys, column) ==
    IF keys = <<>> THEN <<>>
    ELSE LET m == Matches(df, Head(keys))
         IN  [i \in 1..Len(m) |-> df.data[column][m[i]]]
                 \o loc(df, Tail(keys), column)

\* np.array(val): an array of the values of val, in their order (of a
\* Series, its values without its index).
np_array(val) == val

\* A variant of SelectGroup: the groups of all the selectors, one after
\* the other.
RECURSIVE SelectGroup_all(_, _)
SelectGroup_all(id_lists, index_array) ==
    IF index_array = <<>> THEN <<>>
    ELSE id_lists[Head(index_array) + 1]
             \o SelectGroup_all(id_lists, Tail(index_array))

\* The group a request serves.
SelectGroup(id_lists, index_array) == id_lists[index_array[1] + 1]

\* The body of _get_batch_of_transformed_samples on a generator whose
\* fields are the arguments: the relation table it leaves and how it ends.
batch_of_transformed_samples(relation, left, right, id_lists, stg, index_array) ==
    LET trans_index == SelectGroup(id_lists, index_array)
        relation1 == IF WithLabels(stg)
                     THEN CastLabels(relation, output_dtype)
                     ELSE relation
        batch_y == IF WithLabels(stg)
                   THEN [none |-> FALSE,
                         values |-> iloc(relation1, trans_index, 2).values]
                   ELSE [none |-> TRUE, values |-> <<>>]
        id_left == iloc(relation1, trans_index, 0)
        id_right == iloc(relation1, trans_index, 1)
        columns == Columns(left) \cup Columns(right)
                       \cup {"id_left", "id_right"}
        raises == \/ Columns(left) # {} /\ KeyError(left, id_left.values)
                  \/ Columns(right) # {} /\ KeyError(right, id_right.values)
        \* Later assignments to a key of the dict replace earlier ones.
        batch_x == [column \in columns |->
            IF column \in Columns(right)
            THEN np_array(loc(right, id_right.values, column))
            ELSE IF column \in Columns(left)
            THEN np_array(loc(left, id_left.values, column))
            ELSE IF column = "id_right"
            THEN np_array(id_right.values)
            ELSE np_array(id_left.values)]
    IN  [relation |-> relation1,
         result   |-> IF raises
                      THEN [outcome |-> "KeyError",
                            index_array |-> index_array]
                      ELSE [outcome |-> "return",
                            index_array |-> index_array,
                            batch_x |-> batch_x,
                            batch_y |-> batch_y]]

\* What the harness hands over: distinct instance numbers below the
\* instance count, as many as the configured batch_size (up to MaxBatch).
IndexArrays(n) ==
    {a \in SeqsUpTo(0..(n - 1), 1..MaxBatch) :
        \A i, j \in DOMAIN a : i # j => a[i] # a[j]}

\* ListGenerator._get_batch_of_transformed_samples
_get_batch_of_transformed_samples ==
    /\ pc = "serving"
    /\ served < MaxServed
    /\ \E index_array \in IndexArrays(num_instances) :
           LET out == batch_of_transformed_samples(
                          _relation, _left, _right, _id_lists, stage,
                          index_array)
           IN  /\ _relation' = out.relation
               /\ result' = out.result
    /\ served' = served + 1
    /\ UNCHANGED <<inputs, stage, pc, _left, _right, _id_lists,
                   num_instances>>

Next ==
    \/ __init__
    \/ _get_batch_of_transformed_samples

Spec == Init /\ [][Next]_vars

\* ------------------------------------------------------------ claims
\* The row positions of the relation table handed to the constructor.
Positions == 0..(NRows(inputs.relation) - 1)

\* The id_left of the row at position p of that table.
LeftIdAt(p) == inputs.relation.data.id_left[p + 1]

\* The id_right of the row at position p of that table.
RightIdAt(p) == inputs.relation.data.id_right[p + 1]

\* The places <<j, i>> of the index-groups that hold position p.
PlacesOf(p) ==
    {pl \in {<<j, i>> : j \in 1..Len(_id_lists), i \in 1..MaxRows + 1} :
        /\ pl[2] <= Len(_id_lists[pl[1]])
        /\ _id_lists[pl[1]][pl[2]] = p}

RECURSIVE SumLen(_)
SumLen(lists) ==
    IF lists = <<>> THEN 0 ELSE Len(Head(lists)) + SumLen(Tail(lists))

\* C1: after construction the index-groups partition the row positions
\* 0..n-1 of the relation table: every position is at exactly one place of
\* exactly one group, no group holds anything else, and the lengths of the
\* groups sum to n.
C1_GroupsPartitionPositions ==
    pc = "serving" =>
        /\ \A p \in Positions : Cardinality(PlacesOf(p)) = 1
        /\ \A j \in 1..Len(_id_lists) : \A i \in 1..Len(_id_lists[j]) :
               _id_lists[j][i] \in Positions
        /\ SumLen(_id_lists) = NRows(inputs.relation)

\* Two groups built from three rows, one of them of rows that are not
\* neighbours in the table.
C1_Witness ==
    /\ pc = "serving"
    /\ NRows(inputs.relation) = 3
    /\ Len(_id_lists) = 2
    /\ \E j \in 1..2 : _id_lists[j] = <<0, 2>>

\* C2 as stated: group j is the group of the j-th distinct id_left met in a
\* scan of the relation table from the top, and the positions inside every
\* group ascend.
C2_GroupsInFirstSeenOrder ==
    pc = "serving" =>
        LET seen == FirstSeen(inputs.relation, NRows(inputs.relation))
        IN  /\ Len(_id_lists) = Len(seen)
            /\ \A j \in 1..Len(_id_lists) :
                   /\ \A i \in 1..Len(_id_lists[j]) :
                          LeftIdAt(_id_lists[j][i]) = seen[j]
                   /\ \A i \in 1..(Len(_id_lists[j]) - 1) :
                          _id_lists[j][i] < _id_lists[j][i + 1]

\* C2, amended: every group is non-empty and of one id_left, the groups
\* come in ascending order of their id_left, and the positions inside
\* every group ascend.
C2_GroupsInKeyOrder ==
    pc = "serving" =>
        /\ \A j \in 1..Len(_id_lists) :
               /\ _id_lists[j] # <<>>
               /\ \A i \in 1..Len(_id_lists[j]) :
                      LeftIdAt(_id_lists[j][i]) = LeftIdAt(_id_lists[j][1])
               /\ \A i \in 1..(Len(_id_lists[j]) - 1) :
                      _id_lists[j][i] < _id_lists[j][i + 1]
        /\ \A j \in 1..(Len(_id_lists) - 1) :
               LeftIdAt(_id_lists[j][1]) < LeftIdAt(_id_lists[j + 1][1])

\* Groups built from a table whose first row has the greater id_left: the
\* first group is not the group of the first row.
C2_Witness ==
    /\ pc = "serving"
    /\ Len(_id_lists) = 2
    /\ NRows(inputs.relation) = 3
    /\ LeftIdAt(0) > LeftIdAt(1)
    /\ _id_lists[2] = <<0, 2>>

\* C7: after construction there are as many index-groups as distinct
\* id_left in the relation table, that number is the instance count handed
\* to the harness, and an empty relation table gives no group and count 0.
C7_LengthIsNumberOfLeftIds ==
    pc = "serving" =>
        /\ Len(_id_lists) = Cardinality({LeftIdAt(p) : p \in Positions})
        /\ num_instances = Len(_id_lists)
        /\ NRows(inputs.relation) = 0 =>
               _id_lists = <<>> /\ num_instances = 0

\* A generator built from three rows of two id_left whose rows alternate.
C7_Witness ==
    /\ pc = "serving"
    /\ NRows(inputs.relation) = 3
    /\ LeftIdAt(0) # LeftIdAt(1)
    /\ LeftIdAt(0) = LeftIdAt(2)
    /\ num_instances = 2

\* ------------------------------------------------ claims on requests
\* The last request ended, one way or the other.
Requested == result.outcome # "none"

\* The last request returned a batch.
Returned == result.outcome = "return"

\* The group the last request was to serve: the one its first selector
\* names.
ServedGroup == _id_lists[result.index_array[1] + 1]

\* How often key labels a row of the feature table df.
KeyCount(df, key) == Cardinality({j \in 1..NRows(df) : df.index[j] = key})

\* The cell of column in the one row of df labelled key.
ValueOf(df, key, column) ==
    df.data[column][CHOOSE j \in 1..NRows(df) : df.index[j] = key]

\* Every id a row of the served group references labels exactly one row
\* of its feature table.
ReferencedIdsUnique ==
    \A i \in 1..Len(ServedGroup) :
        /\ KeyCount(inputs.left, LeftIdAt(ServedGroup[i])) = 1
        /\ KeyCount(inputs.right, RightIdAt(ServedGroup[i])) = 1

\* Some row of the served group references an id that labels no row of
\* its feature table.
ReferencedIdMissing ==
    \E i \in 1..Len(ServedGroup) :
        \/ KeyCount(inputs.left, LeftIdAt(ServedGroup[i])) = 0
        \/ KeyCount(inputs.right, RightIdAt(ServedGroup[i])) = 0

\* C3: a request whose group references only unique keys returns a batch
\* whose columns are the feature columns and the two id columns, each of
\* as many entries as the group has rows, entry i of a feature column being
\* the feature table's cell for the id of relation row group[i].
C3_ColumnsAlignedWithGroup ==
    (Requested /\ ReferencedIdsUnique) =>
        /\ Returned
        /\ DOMAIN result.batch_x =
               {"text_left", "text_right", "id_left", "id_right"}
        /\ \A column \in DOMAIN result.batch_x :
               Len(result.batch_x[column]) = Len(ServedGroup)
        /\ \A i \in 1..Len(ServedGroup) :
               /\ result.batch_x["text_left"][i] =
                      ValueOf(inputs.left, LeftIdAt(ServedGroup[i]),
                              "text_left")
               /\ result.batch_x["text_right"][i] =
                      ValueOf(inputs.right, RightIdAt(ServedGroup[i]),
                              "text_right")

\* A batch of two rows of one id_left and two id_right, the right table
\* holding the two keys in the other order.
C3_Witness ==
    /\ Returned
    /\ ReferencedIdsUnique
    /\ Len(ServedGroup) = 2
    /\ RightIdAt(ServedGroup[1]) = 0
    /\ RightIdAt(ServedGroup[2]) = 1
    /\ inputs.right.index = <<1, 0>>
    /\ NRows(inputs.left) = 2

\* C4: in a returned batch, entry i of id_left and of id_right is the
\* id_left and the id_right of relation row group[i].
C4_IdsOfGroupRows ==
    Returned =>
        /\ Len(result.batch_x["id_left"]) = Len(ServedGroup)
        /\ Len(result.batch_x["id_right"]) = Len(ServedGroup)
        /\ \A i \in 1..Len(ServedGroup) :
               /\ result.batch_x["id_left"][i] = LeftIdAt(ServedGroup[i])
               /\ result.batch_x["id_right"][i] = RightIdAt(ServedGroup[i])

\* A batch of the rows 0 and 2 of a table of three, of different id_right.
C4_Witness ==
    /\ Returned
    /\ ServedGroup = <<0, 2>>
    /\ RightIdAt(0) # RightIdAt(2)
    /\ result.batch_x["id_right"] = <<RightIdAt(0), RightIdAt(2)>>

\* C5: a request that returns in stage train or evaluate returns one label
\* per row of the group, entry i being the label of relation row group[i]
\* as a float; a request that returns in stage predict returns None.
C5_LabelsByStage ==
    Returned =>
        IF stage \in {"train", "evaluate"}
        THEN /\ ~result.batch_y.none
             /\ Len(result.batch_y.values) = Len(ServedGroup)
             /\ \A i \in 1..Len(ServedGroup) :
                    result.batch_y.values[i] =
                        [dtype |-> "float64",
                         val |-> inputs.relation.data.label
                                     [ServedGroup[i] + 1].val]
        ELSE result.batch_y.none

\* Labels of the rows 0 and 2 returned in stage evaluate.
C5_Witness ==
    /\ Returned
    /\ stage = "evaluate"
    /\ ServedGroup = <<0, 2>>
    /\ result.batch_y.values = <<[dtype |-> "float64", val |-> 0],
                                 [dtype |-> "float64", val |-> 2]>>

\* A request returned None for the labels in stage predict.
C5_WitnessPredict ==
    /\ Returned
    /\ stage = "predict"
    /\ result.batch_y.none

\* C6: a request whose group references an id that is no key of its
\* feature table ends in a KeyError and yields neither a batch nor labels.
C6_MissingIdRaises ==
    (Requested /\ ReferencedIdMissing) =>
        /\ result.outcome = "KeyError"
        /\ DOMAIN result = {"outcome", "index_array"}

\* A request in stage train for a group of two rows, the id_right of one a
\* key of the right table and of the other not, ended in a KeyError.
C6_Witness ==
    /\ result.outcome = "KeyError"
    /\ stage = "train"
    /\ Len(ServedGroup) = 2
    /\ KeyCount(inputs.left, LeftIdAt(ServedGroup[1])) = 1
    /\ KeyCount(inputs.right, RightIdAt(ServedGroup[1])) = 1
    /\ KeyCount(inputs.right, RightIdAt(ServedGroup[2])) = 0

\* The first request of a generator just built from the constructor's
\* arguments, for the given selectors.
FirstRequest(index_array) ==
    batch_of_transformed_samples(
        inputs.relation, inputs.left, inputs.right,
        transform_relation(inputs.relation), stage, index_array)

\* C8: whatever was served before, a request ends as the first request of
\* the generator would have ended for the same selectors, and in stage
\* train or evaluate the relation table stays what the first request made
\* of it.
C8_CastIdempotent ==
    Requested =>
        /\ result = FirstRequest(result.index_array).result
        /\ stage \in {"train", "evaluate"} =>
               _relation = FirstRequest(result.index_array).relation

\* A second request in stage train returned the labels of two rows.
C8_Witness ==
    /\ served = 2
    /\ stage = "train"
    /\ Returned
    /\ Len(result.batch_y.values) = 2
    /\ _relation.data.label # inputs.relation.data.label

\* C9: a request changes neither the index-groups built at construction,
\* nor the feature tables, nor the index and the id columns of the
\* relation table, nor, in stage predict, its label column.
C9_RequestsLeaveInputsAlone ==
    pc = "serving" =>
        /\ _id_lists = transform_relation(inputs.relation)
        /\ _left = inputs.left
        /\ _right = inputs.right
        /\ _relation.index = inputs.relation.index
        /\ _relation.data.id_left = inputs.relation.data.id_left
        /\ _relation.data.id_right = inputs.relation.data.id_right
        /\ stage = "predict" => _relation = inputs.relation

\* Two requests were served in stage predict, the second ending in a
\* KeyError, on a table of two groups.
C9_Witness ==
    /\ served = 2
    /\ stage = "predict"
    /\ result.outcome = "KeyError"
    /\ Len(_id_lists) = 2

\* C10: a returned batch holds the rows of the one group the first selector
\* names, whatever else index_array holds: its id_right are those of the
\* rows of that group, its labels (in stage train or evaluate) are those
\* rows' labels, and its id_left are all the same.
C10_OneGroupPerRequest ==
    Returned =>
        /\ result.batch_x["id_right"] =
               [i \in 1..Len(ServedGroup) |-> RightIdAt(ServedGroup[i])]
        /\ ~result.batch_y.none =>
               [i \in 1..Len(result.batch_y.values) |->
                   result.batch_y.values[i].val]
                 = [i \in 1..Len(ServedGroup) |->
                       inputs.relation.data.label[ServedGroup[i] + 1].val]
        /\ \A i, j \in 1..Len(result.batch_x["id_left"]) :
               result.batch_x["id_left"][i] = result.batch_x["id_left"][j]

\* A batch returned for an index_array of two selectors, the second group
\* first.
C10_Witness ==
    /\ Returned
    /\ result.index_array = <<1, 0>>
    /\ Len(ServedGroup) = 2
    /\ Len(result.batch_x["id_left"]) = 2
    /\ result.batch_x["id_left"][1] = 1
====
